---- MODULE Spec2Model ----
\* A model of the GATT client in src/src/gattlib.cpp: one GATTRequester, one
\* caller thread issuing its operations and the glib main-loop thread started
\* by IOService running the callbacks (connect_cb, disconnect_cb, the request
\* completion callbacks and events_handler).  The code takes no lock, so the
\* two threads interleave between any two accesses of the requester's fields;
\* each action below is one such step.
EXTENDS Integers, Sequences, FiniteSets, TLC

\* ---------------------------------------------------------------- bounds
\* channels gatt_connect may open in one behaviour
MaxConnects == 2
\* completions the codec holds registered at one time (correlation handles
\* 1..MaxRequests name the registrations)
MaxRequests == 2
\* turns of check_channel's polling loop that fit before its deadline
MaxPolls == 2

\* ------------------------------------------------------ program constants
ATT_DEFAULT_LE_MTU == 23
ATT_CID == 4
ATT_OP_HANDLE_NOTIFY == 27
ATT_OP_HANDLE_IND == 29
ATT_ECODE_ABORTED == 130
\* an ATT error status a remote may answer with (request not supported)
ATT_ECODE_REQ_NOT_SUPP == 6
\* an incoming MTU bt_io_get may report on a channel that is not the ATT channel
DetectedImtu == 48
\* a channel id other than ATT_CID
OtherCid == 64

NULL == 0
Channels == 1..MaxConnects
RequestIds == 1..MaxRequests
Threads == {"caller", "loop"}

VARIABLES
    state,      \* GATTRequester::_state
    channel,    \* GATTRequester::_channel (NULL or the channel gatt_connect returned)
    attrib,     \* GATTRequester::_attrib  (NULL or the session g_attrib_new made)
    mtu,        \* GATTRequester::_mtu
    chan,       \* the transport: per channel its status, its shutdowns, its parameter updates
    hupWatch,   \* channels with the G_IO_HUP watch of connect() armed
    session,    \* the codec: per GAttrib its status, MTU, event registration, unrefs
    cmds,       \* the codec: per correlation handle the registered completion
    response,   \* the GATTResponse on the caller's stack (got: the completion its
                \* callback was invoked with)
    pc,         \* per thread, the statement it is at
    call,       \* the caller's locals
    cb,         \* the loop thread's locals (the callback being run)
    ret,        \* what the caller's last call returned
    err,        \* what the caller's last call threw
    events,     \* the last unsolicited PDU: hooks run and confirmations sent for it
    fault       \* undefined behaviour met (the process is then lost)

connVars == <<state, channel, attrib, mtu>>
ioVars == <<chan, hupWatch, session, cmds>>
vars == <<state, channel, attrib, mtu, chan, hupWatch, session, cmds, response,
          pc, call, cb, ret, err, events, fault>>

NoRet == [has |-> FALSE, val |-> <<>>]
NoErr == [msg |-> "none", status |-> 0]
NoCall == [op |-> "none", wait |-> FALSE, ch |-> NULL, id |-> 0, su |-> FALSE,
           arg |-> 0, uuid |-> "", ev |-> FALSE, raced |-> FALSE, again |-> FALSE,
           polls |-> 0]
NoCb == [op |-> "none", ch |-> NULL, id |-> 0, status |-> 0]
NoCompletion == [status |-> 0, null |-> TRUE, data |-> <<>>]
NoEvent == [opcode |-> 0, sess |-> NULL, notif |-> 0, ind |-> 0, conf |-> 0, on |-> NULL,
            sent |-> FALSE]
NoResp == [alive |-> FALSE, id |-> 0, status |-> 0, data |-> <<>>, event |-> FALSE,
           got |-> NoCompletion, notes |-> 0]
NoCmd == [kind |-> "none", sess |-> NULL, st |-> "none", filter |-> ""]
NoSession == [st |-> "none", mtu |-> 0, reg |-> FALSE]

\* GATTResponse::GATTResponse: _status(0), an empty list, the event clear
NewResponse == [NoResp EXCEPT !.alive = TRUE]

\* GATTRequester::GATTRequester with do_connect = false
Init ==
    /\ state = "DISCONNECTED"
    /\ channel = NULL
    /\ attrib = NULL
    /\ mtu = ATT_DEFAULT_LE_MTU
    /\ chan = [c \in Channels |-> [st |-> "unused", upd |-> FALSE]]
    /\ hupWatch = {}
    /\ session = [s \in Channels |-> NoSession]
    /\ cmds = [i \in RequestIds |-> NoCmd]
    /\ response = NoResp
    /\ pc = [t \in Threads |-> "idle"]
    /\ call = NoCall
    /\ cb = NoCb
    /\ ret = NoRet
    /\ err = NoErr
    /\ events = NoEvent
    /\ fault = "none"

Running == fault = "none"

\* a thread leaves its current operation
Goto(t, l) == pc' = [pc EXCEPT ![t] = l]

\* what of the caller's locals is kept to tell which call ended and how
Ended(c) == [NoCall EXCEPT !.op = c.op, !.ev = c.ev, !.raced = c.raced, !.again = c.again]

\* the caller's call ends by an exception with status st: its GATTResponse,
\* if any, is destroyed
ThrowStatus(c, e, st) ==
    /\ Goto("caller", "done")
    /\ err' = [msg |-> e, status |-> st]
    /\ ret' = NoRet
    /\ call' = Ended(c)
    /\ response' = NoResp

Throw(e) == ThrowStatus(call, e, 0)

\* the caller's call returns v: its GATTResponse, if any, is destroyed
Return(v) ==
    /\ Goto("caller", "done")
    /\ err' = NoErr
    /\ ret' = [has |-> TRUE, val |-> v]
    /\ call' = Ended(call)
    /\ response' = NoResp

\* a call that returns nothing
Void == <<>>

\* a loop-thread step on the connection: taken while the caller is inside
\* disconnect() it has raced with that call, taken after it the caller's next
\* call no longer follows the disconnect() directly
Overlap ==
    IF call.op = "disconnect" THEN [call EXCEPT !.raced = TRUE]
    ELSE [call EXCEPT !.again = FALSE]

\* ------------------------------------------------------------ connect
\* a connect() that refuses only an established connection
connect_check_connected == state = "CONNECTED"

\* connect(): the state check of its first line
connect_check == state # "DISCONNECTED"

connect(w) ==
    /\ Running
    /\ pc["caller"] = "idle"
    /\ IF connect_check
       THEN /\ ThrowStatus([NoCall EXCEPT !.op = "connect"],
                            "Already connecting or connected", 0)
            /\ UNCHANGED <<connVars, ioVars, cb, events, fault>>
       ELSE /\ \E c \in Channels : chan[c].st = "unused"
            /\ state' = "CONNECTING"
            /\ Goto("caller", "connect_open")
            /\ call' = [NoCall EXCEPT !.op = "connect", !.wait = w]
            /\ UNCHANGED <<channel, attrib, mtu, ioVars, response, cb, ret, err,
                           events, fault>>

\* gatt_connect: a new channel whose completion is pending, or NULL with gerr set
gatt_connect ==
    /\ Running
    /\ pc["caller"] = "connect_open"
    /\ \/ /\ call' = [call EXCEPT !.ch = NULL]
          /\ UNCHANGED chan
       \/ \E c \in Channels :
            /\ chan[c].st = "unused"
            /\ \A d \in Channels : d < c => chan[d].st # "unused"
            /\ chan' = [chan EXCEPT ![c].st = "pending"]
            /\ call' = [call EXCEPT !.ch = c]
    /\ Goto("caller", "connect_assign")
    /\ UNCHANGED <<connVars, hupWatch, session, cmds, response, cb, ret, err, events, fault>>

\* _channel = <what gatt_connect returned>; the NULL branch; g_io_add_watch; wait
connect_assign ==
    /\ Running
    /\ pc["caller"] = "connect_assign"
    /\ channel' = call.ch
    /\ IF call.ch = NULL
       THEN /\ state' = "DISCONNECTED"
            /\ Throw("transport error")
            /\ UNCHANGED <<attrib, mtu, ioVars, cb, events, fault>>
       ELSE /\ hupWatch' = hupWatch \cup {call.ch}
            /\ IF call.wait
               THEN /\ Goto("caller", "check_channel")
                    /\ call' = [call EXCEPT !.su = FALSE, !.ch = NULL]
                    /\ UNCHANGED <<response, ret, err>>
               ELSE Return(Void)
            /\ UNCHANGED <<state, attrib, mtu, chan, session, cmds, cb, events, fault>>

\* ---------------------------------------------------------- disconnect
\* g_attrib_unref of a session: the last reference goes, the session is
\* destroyed and with it its registered completions (none is invoked)
Unref(s) == [session EXCEPT ![s] = NoSession]

DropCmds(s) ==
    [i \in RequestIds |->
        IF cmds[i].sess = s /\ cmds[i].st = "queued" THEN NoCmd ELSE cmds[i]]

\* a channel after g_io_channel_shutdown: nothing is delivered on it any more
Closed == [st |-> "closed", upd |-> FALSE]

\* a session that _attrib (a) no longer points at, on a channel that is shut
\* down, is leaked: nothing reaches it again and the model drops it
Leaked(s, a, ch) == session[s].st = "live" /\ s # a /\ ch[s].st = "closed"

Reachable(a, ch) == [s \in Channels |-> IF Leaked(s, a, ch) THEN NoSession ELSE session[s]]

ReachableCmds(a, ch) ==
    [i \in RequestIds |->
        IF cmds[i].st = "queued" /\ Leaked(cmds[i].sess, a, ch) THEN NoCmd ELSE cmds[i]]

\* disconnect(): the early return of its first line
disconnect_check == state = "DISCONNECTED"

\* the steps of GATTRequester::disconnect run by thread t
\* g_attrib_unref(_attrib)
disconnect_unref(t) ==
    /\ pc[t] = "d_unref"
    /\ IF attrib = NULL
       THEN UNCHANGED <<session, cmds, fault>>
       ELSE IF session[attrib].st = "live"
            THEN /\ session' = Unref(attrib)
                 /\ cmds' = DropCmds(attrib)
                 /\ UNCHANGED fault
            ELSE /\ fault' = "g_attrib_unref of a released session"
                 /\ UNCHANGED <<session, cmds>>
    /\ Goto(t, "d_shutdown")
    /\ UNCHANGED <<connVars, chan, hupWatch>>

\* _attrib = NULL; g_io_channel_shutdown(_channel); g_io_channel_unref(_channel)
disconnect_shutdown(t) ==
    /\ pc[t] = "d_shutdown"
    /\ attrib' = NULL
    /\ IF channel = NULL
       THEN UNCHANGED <<chan, fault>>
       ELSE IF chan[channel].st = "closed"
            THEN /\ fault' = "g_io_channel_unref of a released channel"
                 /\ UNCHANGED chan
            ELSE /\ chan' = [chan EXCEPT ![channel] = Closed]
                 /\ UNCHANGED fault
    /\ hupWatch' = hupWatch \ {channel}
    /\ session' = Reachable(NULL, chan')
    /\ cmds' = ReachableCmds(NULL, chan')
    /\ Goto(t, "d_state")
    /\ UNCHANGED <<state, channel, mtu>>

\* a disconnect() that forgets to null _channel
disconnect_state_keeps_channel(t) ==
    /\ pc[t] = "d_state"
    /\ state' = "DISCONNECTED"
    /\ Goto(t, IF t = "caller" THEN "done" ELSE "idle")
    /\ UNCHANGED <<channel, attrib, mtu, ioVars, fault>>

\* _channel = NULL; _state = STATE_DISCONNECTED
disconnect_state(t) ==
    /\ pc[t] = "d_state"
    /\ channel' = NULL
    /\ state' = "DISCONNECTED"
    /\ Goto(t, IF t = "caller" THEN "done" ELSE "idle")
    /\ UNCHANGED <<attrib, mtu, ioVars, fault>>

disconnect_body(t) ==
    \/ disconnect_unref(t)
    \/ disconnect_shutdown(t)
    \/ disconnect_state(t)

\* disconnect() called by the caller thread
disconnect ==
    /\ Running
    /\ pc["caller"] = "idle"
    /\ call' = [NoCall EXCEPT !.op = "disconnect", !.again = call.again]
    /\ IF disconnect_check
       THEN /\ Goto("caller", "done")
            /\ ret' = [has |-> TRUE, val |-> Void]
            /\ UNCHANGED err
       ELSE /\ Goto("caller", "d_unref")
            /\ UNCHANGED <<ret, err>>
    /\ UNCHANGED <<connVars, ioVars, response, cb, events, fault>>

disconnect_step ==
    /\ Running
    /\ disconnect_body("caller")
    /\ ret' = IF pc'["caller"] = "done" THEN [has |-> TRUE, val |-> Void] ELSE ret
    /\ UNCHANGED <<response, call, cb, err, events>>

\* the caller takes the outcome of its last call and is free to call again
\* (again: the call that ended was a disconnect() no loop step raced with)
returned ==
    /\ Running
    /\ pc["caller"] = "done"
    /\ Goto("caller", "idle")
    /\ call' = [NoCall EXCEPT !.again = (call.op = "disconnect" /\ ~call.raced)]
    /\ ret' = NoRet
    /\ err' = NoErr
    /\ UNCHANGED <<connVars, ioVars, response, cb, events, fault>>

\* ------------------------------------------------- loop thread: connect_cb
\* the MTU connect_cb hands to g_attrib_new
ConnectMtu(gerr, cid, imtu) ==
    IF gerr \/ cid = ATT_CID THEN ATT_DEFAULT_LE_MTU ELSE imtu

\* the transport completes a pending connect and calls connect_cb
connect_cb_dispatch ==
    /\ Running
    /\ pc["loop"] = "idle"
    /\ \E c \in Channels, e \in BOOLEAN :
        /\ chan[c].st = "pending"
        /\ chan' = [chan EXCEPT ![c].st = IF e THEN "failed" ELSE "open"]
        /\ cb' = [NoCb EXCEPT !.op = "connect_cb", !.ch = c, !.status = IF e THEN 1 ELSE 0]
    /\ Goto("loop", "connect_cb")
    /\ call' = Overlap
    /\ UNCHANGED <<connVars, hupWatch, session, cmds, response, ret, err, events, fault>>

\* connect_cb: the err branch, or bt_io_get and _attrib = g_attrib_new(channel, mtu)
connect_cb ==
    /\ Running
    /\ pc["loop"] = "connect_cb"
    /\ IF cb.status # 0
       THEN /\ state' = "ERROR_CONNECTING"
            /\ Goto("loop", "idle")
            /\ cb' = NoCb
            /\ UNCHANGED <<attrib, session>>
       ELSE /\ \E gerr \in BOOLEAN, cid \in {ATT_CID, OtherCid} :
                session' = [session EXCEPT ![cb.ch] =
                    [st |-> "live", mtu |-> ConnectMtu(gerr, cid, DetectedImtu),
                     reg |-> FALSE]]
            /\ attrib' = cb.ch
            /\ Goto("loop", "connect_cb_register")
            /\ UNCHANGED <<state, cb>>
    /\ call' = Overlap
    /\ UNCHANGED <<channel, mtu, chan, hupWatch, cmds, response, ret, err, events, fault>>

\* connect_cb: g_attrib_register(request->_attrib, ...) for both event opcodes
connect_cb_register ==
    /\ Running
    /\ pc["loop"] = "connect_cb_register"
    /\ IF attrib # NULL /\ session[attrib].st = "live"
       THEN /\ session' = [session EXCEPT ![attrib].reg = TRUE]
            /\ UNCHANGED fault
       ELSE /\ fault' = "g_attrib_register on a null or released session"
            /\ UNCHANGED session
    /\ Goto("loop", "connect_cb_state")
    /\ call' = Overlap
    /\ UNCHANGED <<connVars, chan, hupWatch, cmds, response, cb, ret, err, events>>

\* connect_cb: request->_state = STATE_CONNECTED
connect_cb_state ==
    /\ Running
    /\ pc["loop"] = "connect_cb_state"
    /\ state' = "CONNECTED"
    /\ Goto("loop", "idle")
    /\ cb' = NoCb
    /\ call' = Overlap
    /\ UNCHANGED <<channel, attrib, mtu, ioVars, response, ret, err, events, fault>>

\* ---------------------------------------------- loop thread: disconnect_cb
\* the G_IO_HUP watch fires: disconnect_cb calls request->disconnect()
disconnect_cb ==
    /\ Running
    /\ pc["loop"] = "idle"
    /\ \E c \in hupWatch :
        /\ chan[c].st \in {"open", "failed"}
        /\ hupWatch' = hupWatch \ {c}
    /\ IF disconnect_check THEN UNCHANGED pc ELSE Goto("loop", "d_unref")
    /\ call' = Overlap
    /\ UNCHANGED <<connVars, chan, session, cmds, response, cb, ret, err, events, fault>>

disconnect_cb_step ==
    /\ Running
    /\ disconnect_body("loop")
    /\ call' = Overlap
    /\ UNCHANGED <<response, cb, ret, err, events>>

\* ------------------------------------------------------- GATTResponse
\* an on_response that inserts at the front of the list
on_response_prepend(r, item) == [r EXCEPT !.data = <<item>> \o @]

\* GATTResponse::on_response: _data.append(data)
on_response(r, item) == [r EXCEPT !.data = Append(@, item)]

\* GATTResponse::notify: _status = status; _event.set()
notify(r, status) == [r EXCEPT !.status = status, !.event = TRUE, !.notes = @ + 1]

\* ----------------------------------------------- completion callbacks
\* what the codec hands a completion callback: the status, whether the data
\* pointer is null, and the data (PDU bytes, or the decoded record list)
Completion(st, isNull, d) == [status |-> st, null |-> isNull, data |-> d]

\* the MTU bytes read in the wrong order
DecodeMtu_swapped(data) == data[2] * 256 + data[3]

\* the MTU bytes of an exchange-MTU response: (data[2] << 8) | data[1]
DecodeMtu(data) == data[3] * 256 + data[2]

\* exchange_mtu_cb: notify() is inside the success branch
exchange_mtu_cb(r, c) ==
    IF c.status = 0 /\ ~c.null
    THEN notify(on_response(r, DecodeMtu(c.data)), c.status)
    ELSE r

\* read_by_handler_cb: the first byte (the opcode) is dropped
read_by_handler_cb(r, c) ==
    notify(IF c.status = 0 /\ ~c.null THEN on_response(r, Tail(c.data)) ELSE r, c.status)

\* dec_read_by_type_resp: the element length follows the opcode, then the
\* elements; NULL (here <<>> with ok FALSE) for a PDU that does not decode
dec_read_by_type_resp(data) ==
    IF Len(data) < 3 \/ data[2] = 0 \/ (Len(data) - 2) % data[2] # 0
    THEN [ok |-> FALSE, num |-> 0, len |-> 0, data |-> <<>>]
    ELSE [ok |-> TRUE, num |-> (Len(data) - 2) \div data[2], len |-> data[2],
          data |-> [i \in 1..((Len(data) - 2) \div data[2]) |->
                      SubSeq(data, 3 + (i - 1) * data[2], 2 + i * data[2])]]

RECURSIVE AppendAll(_, _)
\* the for loops of the callbacks: on_response for each item in turn
AppendAll(r, items) ==
    IF items = <<>> THEN r ELSE AppendAll(on_response(r, Head(items)), Tail(items))

\* the value of one read-by-type element: the two handle bytes are skipped
ItemValue(item, len) == SubSeq(item, 3, len)

\* read_by_uuid_cb
read_by_uuid_cb(r, c) ==
    IF c.status # 0 \/ c.null
    THEN notify(r, c.status)
    ELSE LET list == dec_read_by_type_resp(c.data) IN
         IF ~list.ok
         THEN notify(r, ATT_ECODE_ABORTED)
         ELSE notify(AppendAll(r, [i \in 1..list.num |-> ItemValue(list.data[i], list.len)]),
                     c.status)

\* write_by_handle_cb: the whole PDU is the one item
write_by_handle_cb(r, c) ==
    notify(IF c.status = 0 /\ ~c.null THEN on_response(r, c.data) ELSE r, c.status)

\* the dict discover_primary_cb builds of one gatt_primary
PrimaryDict(prim) == [uuid |-> prim.uuid, start |-> prim.start, end |-> prim.end]

\* discover_primary_cb
discover_primary_cb(r, c) ==
    IF c.status # 0 \/ c.null
    THEN notify(r, c.status)
    ELSE notify(AppendAll(r, [i \in 1..Len(c.data) |-> PrimaryDict(c.data[i])]), c.status)

\* the dict discover_char_cb builds of one gatt_char
CharDict(ch) == [uuid |-> ch.uuid, handle |-> ch.handle,
                 properties |-> ch.properties, value_handle |-> ch.value_handle]

\* discover_char_cb
discover_char_cb(r, c) ==
    IF c.status # 0 \/ c.null
    THEN notify(r, c.status)
    ELSE notify(AppendAll(r, [i \in 1..Len(c.data) |-> CharDict(c.data[i])]), c.status)

\* the callback each request registers
Callback(kind, r, c) ==
    CASE kind = "exchange_mtu" -> exchange_mtu_cb(r, c)
      [] kind = "read_by_handle" -> read_by_handler_cb(r, c)
      [] kind = "read_by_uuid" -> read_by_uuid_cb(r, c)
      [] kind = "write_by_handle" -> write_by_handle_cb(r, c)
      [] kind = "discover_primary" -> discover_primary_cb(r, c)
      [] kind = "discover_characteristics" -> discover_char_cb(r, c)

\* ------------------------------------------------- what the remote answers
GrantedMtus == {185}
MtuResponse(g) == <<3, g % 256, g \div 256>>
ErrorResponse == <<1>>
SvcA == [uuid |-> "1800", start |-> 1, end |-> 5]
SvcB == [uuid |-> "180a", start |-> 6, end |-> 9]
ChrA == [uuid |-> "2a00", handle |-> 2, properties |-> 2, value_handle |-> 3]
ChrB == [uuid |-> "2a01", handle |-> 4, properties |-> 10, value_handle |-> 5]

Failure == Completion(ATT_ECODE_REQ_NOT_SUPP, FALSE, ErrorResponse)
NoData == Completion(0, TRUE, <<>>)

\* the completions the codec may deliver for a request of each kind
Completions(kind) ==
    CASE kind = "exchange_mtu" ->
            {Completion(0, FALSE, MtuResponse(g)) : g \in GrantedMtus} \cup {Failure, NoData}
      [] kind = "read_by_handle" ->
            {Completion(0, FALSE, <<11, 1, 2>>), Failure, NoData}
      [] kind = "read_by_uuid" ->
            {Completion(0, FALSE, <<9, 3, 16, 0, 170>>),
             Completion(0, FALSE, <<9, 3, 1, 0, 7, 2, 0, 8>>),
             Completion(0, FALSE, <<9, 0>>), Failure, NoData}
      [] kind = "write_by_handle" ->
            {Completion(0, FALSE, <<19>>), Failure}
      [] kind = "discover_primary" ->
            {Completion(0, FALSE, <<SvcA, SvcB>>), Completion(0, TRUE, <<>>),
             Completion(ATT_ECODE_REQ_NOT_SUPP, TRUE, <<>>)}
      [] kind = "discover_characteristics" ->
            {Completion(0, FALSE, <<ChrB, ChrA>>), Completion(0, TRUE, <<>>),
             Completion(ATT_ECODE_REQ_NOT_SUPP, TRUE, <<>>)}

\* ------------------------------------------------------------- requests
Kinds == {"exchange_mtu", "read_by_handle", "read_by_uuid", "write_by_handle",
          "discover_primary", "discover_characteristics"}

\* the UUID strings a caller passes; bt_string_to_uuid accepts the second only
UuidStrings == {"", "2a00", "zz"}

\* a parser that accepts every string
bt_string_to_uuid_any(u) == 0

bt_string_to_uuid(u) == IF u = "2a00" THEN 0 ELSE 0 - 1

\* the UUID argument of each operation (none but for two of them)
UuidArgs(kind) ==
    IF kind = "read_by_uuid" THEN {"2a00", "zz"}
    ELSE IF kind = "discover_characteristics" THEN UuidStrings
    ELSE {""}

\* the operations that begin with check_connected()
NeedsConnected(kind) == kind \in {"discover_primary", "discover_characteristics"}
\* the operations that begin with check_channel()
\* variant: only the reads go through check_channel()
NeedsChannel_reads(kind) == kind \in {"read_by_handle", "read_by_uuid"}

NeedsChannel(kind) ==
    kind \in {"read_by_handle", "read_by_uuid", "write_by_handle", "write_cmd_by_handle"}

\* every operation on an attribute: the blocking requests and the write command
Ops == Kinds \cup {"write_cmd_by_handle"}

\* where an operation goes once check_channel() has returned
AfterCheck(kind) == IF kind = "write_cmd_by_handle" THEN "write_cmd" ELSE "send"

\* GATTRequester::check_connected
check_connected == state = "CONNECTED"

\* the caller enters a request: its GATTResponse is constructed (the write
\* command has none), and a discovery runs check_connected()
request(kind, u) ==
    /\ Running
    /\ pc["caller"] = "idle"
    /\ u \in UuidArgs(kind)
    /\ IF NeedsConnected(kind) /\ ~check_connected
       THEN ThrowStatus([NoCall EXCEPT !.op = kind], "Not connected", 0)
       ELSE /\ response' = IF kind \in Kinds THEN NewResponse ELSE NoResp
            /\ call' = [NoCall EXCEPT !.op = kind, !.uuid = u]
            /\ Goto("caller", IF NeedsChannel(kind) THEN "check_channel" ELSE "send")
            /\ UNCHANGED <<ret, err>>
    /\ UNCHANGED <<connVars, ioVars, cb, events, fault>>

\* GATTRequester::check_channel: one turn of the polling loop.  The deadline
\* of MAX_WAIT_FOR_PACKET may pass at any turn that finds a handle null, and
\* has passed once MaxPolls turns have slept.
check_channel ==
    /\ Running
    /\ pc["caller"] = "check_channel"
    /\ IF channel = NULL \/ attrib = NULL
       THEN \/ /\ call.polls < MaxPolls
               /\ call' = [call EXCEPT !.su = TRUE, !.polls = @ + 1]
               /\ UNCHANGED <<pc, response, ret, err>>
            \/ Throw("Channel or attrib not ready")
       ELSE IF call.su
            THEN /\ Goto("caller", "conn_update")
                 /\ call' = [call EXCEPT !.polls = 0]
                 /\ UNCHANGED <<response, ret, err>>
            ELSE IF call.op = "connect"
                 THEN Return(Void)
                 ELSE /\ Goto("caller", AfterCheck(call.op))
                      /\ UNCHANGED <<call, response, ret, err>>
    /\ UNCHANGED <<connVars, ioVars, cb, events, fault>>

\* check_channel: the connection-parameter update after a wait
conn_update ==
    /\ Running
    /\ pc["caller"] = "conn_update"
    /\ \/ /\ chan' = IF channel # NULL /\ chan[channel].st = "open"
                     THEN [chan EXCEPT ![channel].upd = TRUE] ELSE chan
          /\ IF call.op = "connect"
             THEN Return(Void)
             ELSE /\ Goto("caller", AfterCheck(call.op))
                  /\ UNCHANGED <<call, response, ret, err>>
       \/ /\ Throw("Could not update HCI connection")
          /\ UNCHANGED chan
    /\ UNCHANGED <<connVars, hupWatch, session, cmds, cb, events, fault>>

\* the registration slot a new request takes
FreeId(i) ==
    /\ cmds[i].st = "none"
    /\ \A j \in RequestIds : j < i => cmds[j].st # "none"

\* the gatt_* call of each request: it reads _attrib, registers the callback
\* with &response (and the UUID it was given: "" is the NULL filter) and
\* returns the correlation handle, or 0
send ==
    /\ Running
    /\ pc["caller"] = "send"
    /\ IF call.op = "read_by_uuid" /\ bt_string_to_uuid(call.uuid) < 0
       THEN /\ Throw("Invalid UUID")
            /\ UNCHANGED <<cmds, fault>>
       ELSE IF call.op = "discover_characteristics" /\ call.uuid # ""
               /\ bt_string_to_uuid(call.uuid) < 0
       THEN /\ Throw("Invalid UUID")
            /\ UNCHANGED <<cmds, fault>>
       ELSE IF attrib = NULL
       THEN \/ /\ fault' = "request sent on a null session"
               /\ UNCHANGED <<cmds, pc, call, response, ret, err>>
            \/ /\ Throw("request failed")
               /\ UNCHANGED <<cmds, fault>>
       ELSE IF session[attrib].st # "live"
       THEN /\ fault' = "request sent on a released session"
            /\ UNCHANGED <<cmds, pc, call, response, ret, err>>
       ELSE \/ /\ Throw("request failed")
               /\ UNCHANGED <<cmds, fault>>
            \/ \E i \in RequestIds :
                /\ FreeId(i)
                /\ cmds' = [cmds EXCEPT ![i] =
                              [kind |-> call.op, sess |-> attrib, st |-> "queued",
                               filter |-> call.uuid]]
                /\ call' = [call EXCEPT !.id = i, !.uuid = ""]
                /\ response' = [response EXCEPT !.id = i]
                /\ Goto("caller", "wait")
                /\ UNCHANGED <<ret, err, fault>>
    /\ UNCHANGED <<connVars, chan, hupWatch, session, cb, events>>

\* write_cmd_by_handle after check_channel(): gatt_write_cmd(_attrib, ...)
\* with no callback; the call returns nothing
write_cmd ==
    /\ Running
    /\ pc["caller"] = "write_cmd"
    /\ IF attrib = NULL
       THEN \/ /\ fault' = "command sent on a null session"
               /\ UNCHANGED <<pc, call, response, ret, err>>
            \/ /\ Return(Void)
               /\ UNCHANGED fault
       ELSE IF session[attrib].st # "live"
       THEN /\ fault' = "command sent on a released session"
            /\ UNCHANGED <<pc, call, response, ret, err>>
       ELSE /\ Return(Void)
            /\ UNCHANGED fault
    /\ UNCHANGED <<connVars, ioVars, cb, events>>

\* GATTResponse::wait as the requests use it: the event was set (a non-zero
\* status throws), or the timeout passed with the event clear
wait ==
    /\ Running
    /\ pc["caller"] = "wait"
    /\ IF response.event
       THEN IF response.status # 0
            THEN ThrowStatus(call, "operation failed", response.status)
            ELSE IF call.op = "exchange_mtu"
                 THEN /\ Goto("caller", "set_mtu")
                      /\ UNCHANGED <<call, response, ret, err>>
                 ELSE Return(response.data)
       ELSE /\ Goto("caller", "cancel")
            /\ UNCHANGED <<call, response, ret, err>>
    /\ UNCHANGED <<connVars, ioVars, cb, events, fault>>

\* g_attrib_cancel(_attrib, id) of the timeout branch, then the throw
g_attrib_cancel(a, id) ==
    IF a # NULL /\ cmds[id].st = "queued" /\ cmds[id].sess = a
    THEN [cmds EXCEPT ![id] = NoCmd] ELSE cmds

\* a timeout branch that also falls back to the default MTU
cancel_resets_mtu ==
    /\ Running
    /\ pc["caller"] = "cancel"
    /\ cmds' = g_attrib_cancel(attrib, call.id)
    /\ mtu' = 0
    /\ Throw("timed out")
    /\ UNCHANGED <<state, channel, attrib, chan, hupWatch, session, cb, events, fault>>

cancel ==
    /\ Running
    /\ pc["caller"] = "cancel"
    /\ IF attrib # NULL /\ session[attrib].st # "live"
       THEN /\ fault' = "g_attrib_cancel on a released session"
            /\ UNCHANGED <<cmds, pc, call, response, ret, err>>
       ELSE /\ cmds' = g_attrib_cancel(attrib, call.id)
            /\ Throw("timed out")
            /\ UNCHANGED fault
    /\ UNCHANGED <<connVars, chan, hupWatch, session, cb, events>>

\* exchange_mtu after the wait: _mtu = result[0]; g_attrib_set_mtu(_attrib, _mtu)
set_mtu ==
    /\ Running
    /\ pc["caller"] = "set_mtu"
    /\ IF attrib # NULL /\ session[attrib].st # "live"
       THEN /\ fault' = "g_attrib_set_mtu on a released session"
            /\ UNCHANGED <<mtu, session, pc, call, response, ret, err>>
       ELSE IF attrib = NULL
       THEN \/ /\ fault' = "g_attrib_set_mtu on a null session"
               /\ mtu' = response.data[1]
               /\ UNCHANGED <<session, pc, call, response, ret, err>>
            \/ /\ mtu' = response.data[1]
               /\ Return(response.data[1])
               /\ UNCHANGED <<session, fault>>
       ELSE /\ mtu' = response.data[1]
            /\ session' = [session EXCEPT ![attrib].mtu = response.data[1]]
            /\ Return(response.data[1])
            /\ UNCHANGED fault
    /\ UNCHANGED <<state, channel, attrib, chan, hupWatch, cmds, cb, events>>

\* ------------------------------------- loop thread: request completions
\* the codec takes a registered completion off its queue to invoke it
complete_dispatch ==
    /\ Running
    /\ pc["loop"] = "idle"
    /\ \E i \in RequestIds :
        /\ cmds[i].st = "queued"
        /\ session[cmds[i].sess].st = "live"
        /\ chan[cmds[i].sess].st = "open"
        /\ cb' = [NoCb EXCEPT !.op = cmds[i].kind, !.id = i]
        /\ cmds' = [cmds EXCEPT ![i].st = "dispatched"]
    /\ Goto("loop", "request_cb")
    /\ UNCHANGED <<connVars, chan, hupWatch, session, response, call, ret, err,
                   events, fault>>

\* the callback body runs on the GATTResponse its userp points to
request_cb ==
    /\ Running
    /\ pc["loop"] = "request_cb"
    /\ IF response.alive /\ response.id = cb.id
       THEN /\ \E c \in Completions(cb.op) :
                response' = Callback(cb.op, [response EXCEPT !.got = c], c)
            /\ UNCHANGED fault
       ELSE /\ fault' = "completion callback ran on a destroyed GATTResponse"
            /\ UNCHANGED response
    /\ cmds' = [cmds EXCEPT ![cb.id] = NoCmd]
    /\ cb' = NoCb
    /\ Goto("loop", "idle")
    /\ UNCHANGED <<connVars, chan, hupWatch, session, call, ret, err, events>>

\* -------------------------------------------- loop thread: events_handler
\* a switch whose indication case falls into the notification case
EventKind_all_notify(opcode) ==
    IF opcode \in {ATT_OP_HANDLE_NOTIFY, ATT_OP_HANDLE_IND} THEN "notification"
    ELSE "invalid"

\* the switch of events_handler on data[0]
EventKind(opcode) ==
    IF opcode = ATT_OP_HANDLE_NOTIFY THEN "notification"
    ELSE IF opcode = ATT_OP_HANDLE_IND THEN "indication"
    ELSE "invalid"

\* an events_handler that takes the PDU for the answer to the outstanding
\* request and completes its GATTResponse
events_handler_completes ==
    /\ Running
    /\ pc["loop"] = "idle"
    /\ \E s \in Channels, op \in {ATT_OP_HANDLE_NOTIFY, ATT_OP_HANDLE_IND} :
        /\ session[s].st = "live"
        /\ session[s].reg
        /\ chan[s].st = "open"
        /\ events' = [NoEvent EXCEPT !.opcode = op, !.sess = s,
                        !.notif = IF EventKind(op) = "notification" THEN 1 ELSE 0,
                        !.ind = IF EventKind(op) = "indication" THEN 1 ELSE 0]
        /\ IF EventKind(op) = "notification"
           THEN Goto("loop", "events_return")
           ELSE Goto("loop", "confirm")
    /\ response' = IF response.alive THEN notify(response, 0) ELSE response
    /\ call' = IF pc["caller"] \in {"wait", "cancel"} THEN [call EXCEPT !.ev = TRUE] ELSE call
    /\ UNCHANGED <<connVars, ioVars, cb, ret, err, fault>>

\* events_handler up to the end of its switch: the hook runs; a notification
\* returns, an indication goes on to the confirmation
events_handler ==
    /\ Running
    /\ pc["loop"] = "idle"
    /\ \E s \in Channels, op \in {ATT_OP_HANDLE_NOTIFY, ATT_OP_HANDLE_IND} :
        /\ session[s].st = "live"
        /\ session[s].reg
        /\ chan[s].st = "open"
        /\ events' = [NoEvent EXCEPT !.opcode = op, !.sess = s,
                        !.notif = IF EventKind(op) = "notification" THEN 1 ELSE 0,
                        !.ind = IF EventKind(op) = "indication" THEN 1 ELSE 0]
        /\ IF EventKind(op) = "notification"
           THEN Goto("loop", "events_return")
           ELSE Goto("loop", "confirm")
    /\ call' = IF pc["caller"] \in {"wait", "cancel"} THEN [call EXCEPT !.ev = TRUE] ELSE call
    /\ UNCHANGED <<connVars, ioVars, response, cb, ret, err, fault>>

\* events_handler after the switch: enc_confirmation and one
\* g_attrib_send(request->_attrib, ...), which queues the PDU (sent) or
\* returns 0; its result is dropped
confirm ==
    /\ Running
    /\ pc["loop"] = "confirm"
    /\ IF attrib = NULL
       THEN \/ /\ fault' = "confirmation sent on a null session"
               /\ UNCHANGED <<pc, events>>
            \/ /\ events' = [events EXCEPT !.conf = @ + 1]
               /\ Goto("loop", "events_return")
               /\ UNCHANGED fault
       ELSE IF session[attrib].st # "live"
       THEN /\ fault' = "confirmation sent on a released session"
            /\ UNCHANGED <<pc, events>>
       ELSE /\ \E ok \in BOOLEAN :
                 events' = [events EXCEPT !.conf = @ + 1, !.on = attrib, !.sent = ok]
            /\ Goto("loop", "events_return")
            /\ UNCHANGED fault
    /\ UNCHANGED <<connVars, ioVars, response, call, cb, ret, err>>

\* events_handler returns to the main loop
events_return ==
    /\ Running
    /\ pc["loop"] = "events_return"
    /\ Goto("loop", "idle")
    /\ events' = NoEvent
    /\ UNCHANGED <<connVars, ioVars, response, call, cb, ret, err, fault>>


Next ==
    \/ \E w \in BOOLEAN : connect(w)
    \/ gatt_connect
    \/ connect_assign
    \/ disconnect
    \/ disconnect_step
    \/ connect_cb_dispatch
    \/ connect_cb
    \/ connect_cb_register
    \/ connect_cb_state
    \/ disconnect_cb
    \/ disconnect_cb_step
    \/ \E k \in Ops, u \in UuidStrings : request(k, u)
    \/ check_channel
    \/ conn_update
    \/ send
    \/ write_cmd
    \/ wait
    \/ cancel
    \/ set_mtu
    \/ complete_dispatch
    \/ request_cb
    \/ events_handler
    \/ confirm
    \/ events_return
    \/ returned

Spec == Init /\ [][Next]_vars

\* ================================================================ properties
\* neither thread is inside an operation
Quiescent == pc["caller"] = "idle" /\ pc["loop"] = "idle"

\* the requests that return the list of items their callback collected
ListRequests == Kinds \ {"exchange_mtu"}

\* the caller's call ends with this step
CallEnds == pc["caller"] # "done" /\ pc'["caller"] = "done"

\* the items a completion delivers to a request of each kind: the value of a
\* read (the PDU after its opcode), the value of each element of a read by
\* type (after its handle), the PDU of a write response, one record for each
\* service or characteristic found
Delivered(kind, c) ==
    IF c.null THEN <<>>
    ELSE CASE kind = "read_by_handle" -> << SubSeq(c.data, 2, Len(c.data)) >>
           [] kind = "write_by_handle" -> << c.data >>
           [] kind = "read_by_uuid" ->
                IF Len(c.data) < 3 \/ c.data[2] = 0 THEN <<>>
                ELSE [i \in 1..((Len(c.data) - 2) \div c.data[2]) |->
                        [j \in 1..(c.data[2] - 2) |-> c.data[2 + (i - 1) * c.data[2] + 2 + j]]]
           [] kind = "discover_primary" ->
                [i \in 1..Len(c.data) |->
                    [uuid |-> c.data[i].uuid, start |-> c.data[i].start, end |-> c.data[i].end]]
           [] kind = "discover_characteristics" ->
                [i \in 1..Len(c.data) |->
                    [uuid |-> c.data[i].uuid, handle |-> c.data[i].handle,
                     properties |-> c.data[i].properties,
                     value_handle |-> c.data[i].value_handle]]

\* a read-by-type response that arrives with status 0 and does not decode
Undecodable(kind, c) ==
    kind = "read_by_uuid" /\ ~c.null /\ ~dec_read_by_type_resp(c.data).ok

\* C1: whenever neither thread is inside an operation, state Connected
\* implies a non-null transport handle and state Disconnected implies a null
\* transport handle.
C1_StateMatchesChannel ==
    Quiescent => /\ (state = "CONNECTED" => channel # NULL)
                 /\ (state = "DISCONNECTED" => channel = NULL)

\* C2: a completion callback never runs on a GATTResponse whose call has
\* returned: whenever the loop is about to run a callback body, the
\* GATTResponse it was registered with is alive and is that request's.
C2_NoCallbackAfterReturn ==
    pc["loop"] = "request_cb" => (response.alive /\ response.id = cb.id)

\* C3: a connect() called in a state other than Disconnected ends with the
\* invalid-state error, opens no channel and leaves state, transport handle
\* and session handle as they were; a connect() goes on to open a channel
\* only from state Disconnected (so from ErrorConnecting only once a
\* disconnect() has set Disconnected).
C3_ConnectNeedsDisconnected ==
    [][(pc["caller"] = "idle" /\ call'.op = "connect") =>
          IF state # "DISCONNECTED"
          THEN /\ pc'["caller"] = "done"
               /\ err'.msg = "Already connecting or connected"
               /\ ~ret'.has
               /\ state' = state /\ channel' = channel /\ attrib' = attrib
               /\ chan' = chan /\ hupWatch' = hupWatch
          ELSE /\ pc'["caller"] = "connect_open"
               /\ state' = "CONNECTING"]_vars

C3_Witness ==
    /\ pc["caller"] = "done"
    /\ call.op = "connect"
    /\ err.msg = "Already connecting or connected"
    /\ state = "ERROR_CONNECTING"

\* C4: a disconnect() raises no error; one that no loop-thread step races
\* with ends in state Disconnected, and with null transport and session
\* handles if it found a state other than Disconnected; and a disconnect()
\* called directly after such a disconnect() returns at once, releases nothing
\* and leaves every field as the first call left it.
C4_DisconnectIdempotent ==
    [][(call'.op = "disconnect" /\ CallEnds) =>
          /\ err' = NoErr /\ ret'.has
          /\ ~call'.raced => state' = "DISCONNECTED"
          /\ (pc["caller"] # "idle" /\ ~call'.raced) =>
                (channel' = NULL /\ attrib' = NULL)
          /\ (call'.again /\ ~call'.raced) =>
                /\ pc["caller"] = "idle"
                /\ <<state, channel, attrib, mtu>>' = <<state, channel, attrib, mtu>>
                /\ <<chan, hupWatch, session, cmds>>' = <<chan, hupWatch, session, cmds>>]_vars

C4_Witness ==
    /\ pc["caller"] = "done"
    /\ call.op = "disconnect"
    /\ call.again /\ ~call.raced
    /\ state = "DISCONNECTED" /\ channel = NULL /\ attrib = NULL
    /\ \E c \in Channels : chan[c].st = "closed"

\* C5: discover_primary, discover_characteristics and exchange_mtu called in
\* state Disconnected end at once with the not-connected error, register
\* nothing with the codec and leave the connection fields as they were.
C5_NotConnectedRejected ==
    [][(/\ pc["caller"] = "idle"
        /\ call'.op \in {"discover_primary", "discover_characteristics", "exchange_mtu"}
        /\ state = "DISCONNECTED") =>
          /\ pc'["caller"] = "done"
          /\ err'.msg = "Not connected"
          /\ cmds' = cmds
          /\ <<state, channel, attrib, mtu>>' = <<state, channel, attrib, mtu>>]_vars

\* C6: an exchange_mtu whose completion has arrived with a non-zero ATT
\* status while the call is still waiting ends with the protocol error of
\* that status (and not with the timeout error).
C6_StatusIsProtocolError ==
    [][(/\ pc["caller"] = "wait"
        /\ call.op = "exchange_mtu"
        /\ response.got.status # 0
        /\ pc'["caller"] # "wait") =>
          /\ pc'["caller"] = "done"
          /\ err'.msg = "operation failed"
          /\ err'.status = response.got.status]_vars

\* C7: _mtu is 23 after construction and changes only in exchange_mtu after
\* its wait; an exchange_mtu that returns was completed with status 0 and a
\* granted value g, and at its return mtu() is g, the MTU of the codec session
\* _attrib points at is g, and g is what it returns.
C7_ExchangeMtu ==
    /\ mtu = 23
    /\ [][/\ (mtu' # mtu => pc["caller"] = "set_mtu")
          /\ (call.op = "exchange_mtu" /\ CallEnds /\ ret'.has) =>
                \E g \in GrantedMtus :
                    /\ response.got = [status |-> 0, null |-> FALSE,
                                       data |-> <<3, g % 256, g \div 256>>]
                    /\ mtu' = g
                    /\ ret'.val = g
                    /\ (attrib # NULL => session'[attrib].mtu = g)]_vars

C7_Witness ==
    /\ pc["caller"] = "done"
    /\ call.op = "exchange_mtu"
    /\ ret = [has |-> TRUE, val |-> 185]
    /\ mtu = 185
    /\ attrib # NULL
    /\ session[attrib].mtu = 185

\* C8 as stated: a list request whose completion was delivered in time
\* returns the delivered items in order when the status is 0, and fails with
\* the protocol error of the status, nothing appended, when it is not.
C8_ReturnsDelivered ==
    [][(pc["caller"] = "wait" /\ call.op \in ListRequests /\ CallEnds) =>
          IF response.got.status = 0
          THEN ret' = [has |-> TRUE, val |-> Delivered(call.op, response.got)]
          ELSE /\ response.data = <<>>
               /\ err'.msg = "operation failed"
               /\ err'.status = response.got.status]_vars

\* C8 amended: as C8, but a read_by_uuid completed with status 0 by a PDU
\* that does not decode as a read-by-type response fails with the protocol
\* error ATT_ECODE_ABORTED, nothing appended.
C8_ReturnsDecoded ==
    [][(pc["caller"] = "wait" /\ call.op \in ListRequests /\ CallEnds) =>
          IF response.got.status = 0 /\ ~Undecodable(call.op, response.got)
          THEN ret' = [has |-> TRUE, val |-> Delivered(call.op, response.got)]
          ELSE /\ response.data = <<>>
               /\ ~ret'.has
               /\ err'.msg = "operation failed"
               /\ err'.status = IF response.got.status # 0 THEN response.got.status
                                ELSE ATT_ECODE_ABORTED]_vars

C8_Witness ==
    /\ pc["caller"] = "done"
    /\ call.op = "discover_primary"
    /\ ret = [has |-> TRUE, val |-> << [uuid |-> "1800", start |-> 1, end |-> 5],
                                      [uuid |-> "180a", start |-> 6, end |-> 9] >>]

\* C9: when events_handler returns, an indication has run on_indication once
\* and on_notification not at all and has made one confirmation send; a
\* notification has run on_notification once and made no send; a send is
\* made only after the indication hook has run; a confirmation that is sent
\* goes out on the session the indication came in on (the requester holding
\* no other live session); and a send that fails raises nothing.
C9_EventsHandled ==
    [][/\ (pc["loop"] = "events_return" /\ pc'["loop"] = "idle") =>
            /\ events.opcode = ATT_OP_HANDLE_IND =>
                  (events.ind = 1 /\ events.notif = 0 /\ events.conf = 1)
            /\ events.opcode = ATT_OP_HANDLE_NOTIFY =>
                  (events.notif = 1 /\ events.ind = 0 /\ events.conf = 0)
       /\ (events'.conf > events.conf) =>
            /\ events.opcode = ATT_OP_HANDLE_IND /\ events.ind = 1
            /\ events'.conf = events.conf + 1
            /\ (events'.sent /\ \A s \in Channels : session[s].st = "live" => s = events.sess)
                  => events'.on = events.sess
            /\ ~events'.sent =>
                  (pc'["loop"] = "events_return" /\ fault' = "none" /\ err' = err)]_vars

C9_Witness ==
    /\ pc["loop"] = "events_return"
    /\ events.opcode = ATT_OP_HANDLE_IND
    /\ events.ind = 1 /\ events.conf = 1 /\ events.sent
    /\ events.on = events.sess

\* C10: handling an unsolicited PDU leaves the outstanding request's
\* GATTResponse, its registration and the caller's position untouched; a
\* GATTResponse is changed by the loop thread only in the completion callback
\* registered with it; and a list request during which an unsolicited PDU was
\* handled returns the items of its own completion.
C10_EventsLeaveRequests ==
    [][/\ (events' # events) =>
            (response' = response /\ cmds' = cmds /\ pc'["caller"] = pc["caller"])
       /\ (response' # response /\ pc'["caller"] = pc["caller"]) =>
            (pc["loop"] = "request_cb" /\ cb.id = response.id /\ cb.op = call.op)
       /\ (/\ pc["caller"] = "wait" /\ call.op \in ListRequests /\ CallEnds /\ call.ev
           /\ response.got.status = 0 /\ ~Undecodable(call.op, response.got)) =>
            ret' = [has |-> TRUE, val |-> Delivered(call.op, response.got)]]_vars

C10_Witness ==
    /\ pc["caller"] = "done"
    /\ call.op = "read_by_uuid"
    /\ call.ev
    /\ ret = [has |-> TRUE, val |-> << <<7>>, <<8>> >>]

\* C11: a discover_characteristics called in state Connected goes on to its
\* send; there an empty filter string registers the request with no filter
\* (or the send fails), a filter that parses registers it with that filter,
\* and a filter that does not parse ends the call with the invalid-UUID
\* error, nothing registered with the codec and no callback holding the
\* GATTResponse.
C11_UuidFilter ==
    [][/\ (/\ pc["caller"] = "idle" /\ call'.op = "discover_characteristics"
           /\ state = "CONNECTED") => pc'["caller"] = "send"
       /\ (/\ pc["caller"] = "send" /\ call.op = "discover_characteristics"
           /\ pc'["caller"] # "send") =>
            IF call.uuid \in {"", "2a00"}
            THEN \/ /\ pc'["caller"] = "wait"
                    /\ \E i \in RequestIds :
                         /\ cmds' = [cmds EXCEPT ![i] =
                                [kind |-> "discover_characteristics", sess |-> attrib,
                                 st |-> "queued", filter |-> call.uuid]]
                         /\ cmds[i].st = "none"
                         /\ response'.id = i
                 \/ /\ pc'["caller"] = "done"
                    /\ err'.msg = "request failed"
                    /\ cmds' = cmds
            ELSE /\ pc'["caller"] = "done"
                 /\ err'.msg = "Invalid UUID"
                 /\ ~ret'.has
                 /\ cmds' = cmds
                 /\ response.id = 0]_vars

C11_Witness ==
    /\ pc["caller"] = "done"
    /\ call.op = "discover_characteristics"
    /\ err.msg = "Invalid UUID"
    /\ state = "CONNECTED"

\* C12: a connect() that ends after the transport has reported failure for
\* its attempt (gatt_connect returned NULL, or connect_cb was called with an
\* error for its channel) leaves state ErrorConnecting and throws the
\* transport's error message.
C12_TransportFailureSurfaced ==
    [][(/\ call.op = "connect" /\ CallEnds
        /\ \/ pc["caller"] = "connect_assign" /\ call.ch = NULL
           \/ /\ pc["caller"] \in {"check_channel", "conn_update"}
              /\ channel # NULL /\ chan[channel].st = "failed") =>
          /\ state' = "ERROR_CONNECTING"
          /\ err'.msg = "transport error"]_vars

\* C13: after a hang-up the timeout path of a caller blocked on a request
\* completes without using a released codec session: its g_attrib_cancel is
\* never handed a session that has been released.
C13_TimeoutUsesNoReleasedSession ==
    fault # "g_attrib_cancel on a released session"

\* the operations that call check_channel() before they send
ChannelOps == {"read_by_handle", "read_by_uuid", "write_by_handle", "write_cmd_by_handle"}

\* a step in which check_channel() returns to its caller without throwing
CheckReturns ==
    /\ pc["caller"] = "check_channel"
    /\ \/ pc'["caller"] \in {"conn_update", "send", "write_cmd"}
       \/ pc'["caller"] = "done" /\ err' = NoErr

\* C14: check_channel always terminates: every turn of its loop that does not
\* leave it uses up one of the MaxPolls turns before the deadline, and a turn
\* is always possible; it returns only when both handles are non-null, and it
\* fails with "Channel or attrib not ready" only when one is still null;
\* read_by_handle, read_by_uuid, write_by_handle and write_cmd_by_handle reach
\* their send only from a check_channel that returned, and queue nothing before
C14_CheckChannelTerminates ==
    [][/\ (pc["caller"] = "check_channel" /\ Running) =>
            /\ ENABLED check_channel
            /\ call.polls <= MaxPolls
       /\ (pc["caller"] = "check_channel" /\ pc'["caller"] = "check_channel" /\ call' # call) =>
            /\ call'.polls = call.polls + 1
            /\ channel = NULL \/ attrib = NULL
       /\ CheckReturns => channel # NULL /\ attrib # NULL
       /\ (pc["caller"] = "check_channel" /\ pc'["caller"] = "done"
           /\ err'.msg = "Channel or attrib not ready") =>
            channel = NULL \/ attrib = NULL
       /\ (pc["caller"] = "idle" /\ pc'["caller"] # "idle" /\ call'.op \in ChannelOps) =>
            pc'["caller"] = "check_channel"
       /\ (call.op \in ChannelOps /\ pc["caller"] \notin {"send", "write_cmd"}
           /\ pc'["caller"] \in {"send", "write_cmd"}) =>
            pc["caller"] \in {"check_channel", "conn_update"}
       /\ (call.op \in ChannelOps /\ pc["caller"] \in {"check_channel", "conn_update"}) =>
            \A i \in RequestIds : cmds[i].st = "none" => cmds'[i].st = "none"]_vars

C14_Witness ==
    /\ pc["caller"] = "done"
    /\ call.op = "write_cmd_by_handle"
    /\ err.msg = "Channel or attrib not ready"

\* C15: in every reachable state a non-null transport handle implies that the
\* state is Connected or Connecting (no transport is held in ErrorConnecting),
\* and the state Disconnected implies that the codec session handle is null
C15_HandlesMatchState ==
    /\ channel # NULL => state \in {"CONNECTED", "CONNECTING"}
    /\ state = "DISCONNECTED" => attrib = NULL

\* C16: every completion callback the codec invokes on a request's live
\* GATTResponse calls notify() on it exactly once, whatever the status, the
\* data and the outcome of the decoding
C16_NotifiesOnce ==
    [][(pc["loop"] = "request_cb" /\ pc'["loop"] = "idle"
        /\ response.alive /\ response.id = cb.id) =>
            response'.notes = response.notes + 1]_vars

\* C17: for each connect the connection-parameter update is performed exactly
\* once, by the first check_channel that observes both handles ready: such a
\* check_channel goes on to the update when the connection has not had it,
\* whether or not it had to wait, and skips it when the connection has had it
C17_UpdateAtFirstReadyCheck ==
    [][(/\ pc["caller"] = "check_channel" /\ pc'["caller"] # "check_channel"
        /\ channel # NULL /\ attrib # NULL /\ chan[channel].st = "open") =>
            (pc'["caller"] = "conn_update" <=> ~chan[channel].upd)]_vars

\* the steps of disconnect() and of connect_cb that write the handles
DisconnectSteps == {"d_unref", "d_shutdown", "d_state"}
ConnectCbSteps == {"connect_cb", "connect_cb_register", "connect_cb_state"}

\* C18: the loop's connect-completion and hang-up callbacks and a caller's
\* disconnect() exclude each other: the caller is never inside the body of
\* disconnect() while the loop is inside connect_cb or a disconnect() of its
\* own, and neither the codec session nor the transport is released twice
C18_WritersExclusive ==
    /\ ~(pc["caller"] \in DisconnectSteps
         /\ pc["loop"] \in DisconnectSteps \cup ConnectCbSteps)
    /\ fault \notin {"g_attrib_unref of a released session",
                     "g_io_channel_unref of a released channel"}

\* C19: whenever connect(wait = true) returns without raising, the state is
\* Connected, under every interleaving of check_channel with connect_cb
C19_WaitedConnectIsConnected ==
    [][(call.op = "connect" /\ call.wait /\ CallEnds /\ err' = NoErr) =>
            state' = "CONNECTED"]_vars

\* the caller's positions inside a request, before exchange_mtu stores its result
RequestSteps == {"check_channel", "conn_update", "send", "write_cmd", "wait", "cancel"}

\* a step leaves the effective MTU, every session's MTU and the state as they were
SameMtuAndState ==
    /\ mtu' = mtu
    /\ state' = state
    /\ \A s \in DOMAIN session : session'[s].mtu = session[s].mtu

\* C20: every step of a read, a write, a discovery or an exchange_mtu leaves
\* the effective MTU, the codec session MTU and the state unchanged, except
\* the last step of an exchange_mtu, which is reached only after a completion
\* with status zero was notified, leaves the state unchanged and returns
\* without raising: an exchange_mtu that fails has changed none of the three
C20_RequestsKeepMtuAndState ==
    [][/\ (pc["caller"] = "idle" /\ pc'["caller"] # "idle" /\ call'.op \in Ops) =>
            SameMtuAndState
       /\ (call.op \in Ops /\ pc["caller"] \in RequestSteps
           /\ (pc'["caller"] # pc["caller"] \/ call'.polls # call.polls)) =>
            SameMtuAndState
       /\ (pc'["caller"] = "set_mtu" /\ pc["caller"] # "set_mtu") =>
            /\ call.op = "exchange_mtu"
            /\ response.event /\ response.status = 0
            /\ SameMtuAndState
       /\ (pc["caller"] = "set_mtu" /\ pc'["caller"] # "set_mtu") =>
            /\ state' = state
            /\ err' = NoErr
       /\ (call.op = "exchange_mtu" /\ CallEnds /\ err' # NoErr) =>
            pc["caller"] \in {"idle"} \cup RequestSteps]_vars

C20_Witness ==
    /\ pc["caller"] = "done"
    /\ call.op = "exchange_mtu"
    /\ err.msg = "timed out"
    /\ state = "CONNECTED"
    /\ mtu # ATT_DEFAULT_LE_MTU

\* C21: whenever the state is Connected, the effective MTU that mtu() reports
\* equals the MTU of the current codec session: after connect_cb created the
\* session, after exchange_mtu, and after a disconnect followed by a reconnect
C21_MtuIsSessionMtu ==
    (state = "CONNECTED" /\ attrib # NULL /\ session[attrib].st = "live") =>
        mtu = session[attrib].mtu
====
